---- MODULE Spec2Model ----
(***************************************************************************)
(* A model of egui_glow's Painter (crates/egui_glow/src/painter.rs): the   *)
(* texture table and its lifecycle, the frame draw loop with its user      *)
(* callbacks, and the device (OpenGL) state the painter drives.            *)
(*                                                                         *)
(* The painter is single-threaded: every public method runs to completion  *)
(* before the next one starts.  The texture-table methods are one action   *)
(* each.  A frame (paint_primitives / paint_and_update_textures) is a      *)
(* sequence of steps, because user code (the callback of a Callback        *)
(* primitive) runs in the middle of it and changes device state.           *)
(***************************************************************************)
EXTENDS Integers, Sequences, FiniteSets, TLC

(* ------------------------------------------------------------------ *)
(* Bounds of the model                                                *)
(* ------------------------------------------------------------------ *)

\* Number of public method calls in one behaviour.
MaxCalls == 3

\* Device texture names are 1..MaxHandle.
MaxHandle == 2

\* Device calls one callback body makes.
MaxCbCalls == 1

\* The device's GL_MAX_TEXTURE_SIZE, read once in Painter::new.
MaxTextureSide == 2

\* Logical coordinates are multiples of 1/CoordDen of a point.
CoordDen == 2

(* ------------------------------------------------------------------ *)
(* Program constants                                                  *)
(* ------------------------------------------------------------------ *)

\* A u64 is kept as <<high 32 bits, low 32 bits>>.
\* next_native_tex_id: 1 << 32
NativeIdBase == <<1, 0>>

\* next_native_tex_id += 1 (the low half does not reach 2^32 within MaxCalls)
Incr(n) == <<n[1], n[2] + 1>>

(* ------------------------------------------------------------------ *)
(* Values                                                             *)
(* ------------------------------------------------------------------ *)

Handles == 1..MaxHandle

\* glow::Texture 0 stands for "no texture" in bindings and in log entries.
NoHandle == 0

\* egui::TextureId::Managed(n) / egui::TextureId::User(n)
Managed(n) == <<"Managed", n>>

User(n) == <<"User", n>>

NoId == <<"None", <<0, 0>>>>

NoPos == <<-1, -1>>

NoStorage == [w |-> 0, h |-> 0, px |-> <<>>]

EmptyMap == [k \in {} |-> NoHandle]

Range(f) == {f[k] : k \in DOMAIN f}

\* HashMap::insert
MapInsert(m, k, v) == [x \in DOMAIN m \cup {k} |-> IF x = k THEN v ELSE m[x]]

\* HashMap::remove
MapRemove(m, k) == [x \in DOMAIN m \ {k} |-> m[x]]

\* Number of keys of m whose value is v.
KeysOf(m, v) == Cardinality({k \in DOMAIN m : m[k] = v})

\* Number of places of sequence s holding v.
Occurrences(s, v) == Cardinality({j \in 1..Len(s) : s[j] = v})

\* All orders in which the elements of the finite set S can be visited.
Orders(S) == {s \in [1..Cardinality(S) -> S] : \A a, b \in 1..Cardinality(S) : s[a] = s[b] => a = b}

\* The arguments of a frame call.  with_textures: paint_and_update_textures.
Frame(size, ppp, prims, set, free, with_textures) ==
    [size |-> size, ppp |-> ppp, prims |-> prims, set |-> set, free |-> free,
     with_textures |-> with_textures]

NoFrame == Frame(<<0, 0>>, 1, <<>>, <<>>, <<>>, FALSE)

\* One entry of the log of device calls and diagnostics of the running call.
Ev(e, id, h, i, d) == [e |-> e, id |-> id, h |-> h, i |-> i, d |-> d]

(* ------------------------------------------------------------------ *)
(* State                                                              *)
(* ------------------------------------------------------------------ *)

VARIABLES
    textures,             \* Painter.textures: TextureId -> glow::Texture
    next_native_tex_id,   \* Painter.next_native_tex_id
    textures_to_destroy,  \* Painter.textures_to_destroy
    destroyed,            \* Painter.destroyed
    post_process,         \* Painter.post_process is Some(..)
    gl,                   \* device state: capabilities, bindings, uniforms
    glTextures,           \* texture names that are live on the device
    glStorage,            \* per texture name: allocated size and pixels
    glDeleteCount,        \* per texture name: delete_texture calls so far
    glObjects,            \* the painter's program and buffers are live
    registered,           \* handles handed to register_native_texture so far
    returned,             \* ids register_native_texture has returned so far
    destroyCalled,        \* destroy() has been called
    pc,                   \* position inside the running frame call
    frame,                \* arguments of the running frame call
    idx,                  \* loop index of the running frame call
    cbCalls,              \* device calls made by the running callback
    call,                 \* the last public method called, its arguments
    outcome,              \* "ok", "panic" or "running"
    events,               \* device calls and diagnostics of that call
    nCalls                \* public method calls so far

painterVars == <<textures, next_native_tex_id, textures_to_destroy, destroyed, post_process>>

deviceVars == <<gl, glTextures, glStorage, glDeleteCount, glObjects>>

frameVars == <<pc, frame, idx, cbCalls>>

vars == <<textures, next_native_tex_id, textures_to_destroy, destroyed, post_process,
          gl, glTextures, glStorage, glDeleteCount, glObjects, registered, returned, destroyCalled,
          pc, frame, idx, cbCalls, call, outcome, events, nCalls>>

(* ------------------------------------------------------------------ *)
(* Device state                                                       *)
(* ------------------------------------------------------------------ *)

\* u32 as i32: the identity on the sizes of the model, which are below 2^31
as_i32(v) == v

\* The build modelled is a native one: cfg!(target_arch = "wasm32") is false.
TargetIsWasm32 == FALSE

\* The state of a fresh device context (the OpenGL defaults).
GlDefault ==
    [scissor_test |-> FALSE, cull_face |-> FALSE, depth_test |-> FALSE,
     color_mask |-> <<TRUE, TRUE, TRUE, TRUE>>,
     blend |-> FALSE, blend_equation |-> <<"FUNC_ADD", "FUNC_ADD">>,
     blend_func |-> <<"ONE", "ZERO", "ONE", "ZERO">>,
     framebuffer_srgb |-> FALSE,
     viewport |-> <<0, 0, 0, 0>>, scissor |-> <<0, 0, 0, 0>>,
     program |-> "none", u_screen_size |-> <<0, 0, 1>>, u_sampler |-> 0,
     active_texture |-> 0, texture_2d |-> NoHandle,
     vertex_array |-> "none", element_array_buffer |-> "none",
     array_buffer |-> "none", framebuffer |-> "screen"]

\* What a callback may leave behind in each piece of device state.
GlDirty ==
    [scissor_test |-> FALSE, cull_face |-> TRUE, depth_test |-> TRUE,
     color_mask |-> <<TRUE, TRUE, TRUE, FALSE>>,
     blend |-> FALSE, blend_equation |-> <<"FUNC_SUBTRACT", "FUNC_ADD">>,
     blend_func |-> <<"SRC_ALPHA", "ONE_MINUS_SRC_ALPHA", "ONE", "ZERO">>,
     framebuffer_srgb |-> FALSE,
     viewport |-> <<1, 1, 1, 1>>, scissor |-> <<1, 1, 1, 1>>,
     program |-> "other", u_screen_size |-> <<1, 1, 1>>, u_sampler |-> 1,
     active_texture |-> 1, texture_2d |-> NoHandle,
     vertex_array |-> "other", element_array_buffer |-> "other",
     array_buffer |-> "other", framebuffer |-> "other"]

GlFields == DOMAIN GlDefault

\* The pieces of device state prepare_painting sets.
PreparedFields ==
    {"scissor_test", "cull_face", "depth_test", "color_mask", "blend", "blend_equation",
     "blend_func", "framebuffer_srgb", "viewport", "program", "u_screen_size", "u_sampler",
     "active_texture", "vertex_array", "element_array_buffer"}

\* prepare_painting without its gl.disable(glow::DEPTH_TEST)
prepare_painting_KeepsDepthTest(g, size, ppp) ==
    [g EXCEPT
        !.scissor_test = TRUE,
        !.cull_face = FALSE,
        !.color_mask = <<TRUE, TRUE, TRUE, TRUE>>,
        !.blend = TRUE,
        !.blend_equation = <<"FUNC_ADD", "FUNC_ADD">>,
        !.blend_func = <<"ONE", "ONE_MINUS_SRC_ALPHA", "ONE_MINUS_DST_ALPHA", "ONE">>,
        !.framebuffer_srgb = TRUE,
        !.viewport = <<0, 0, size[1], size[2]>>,
        !.program = "painter",
        !.u_screen_size = <<size[1], size[2], ppp>>,
        !.u_sampler = 0,
        !.active_texture = 0,
        !.vertex_array = "painter",
        !.element_array_buffer = "painter"]

\* prepare_painting without its gl.enable(glow::BLEND)
prepare_painting_LeavesBlend(g, size, ppp) ==
    [g EXCEPT
        !.scissor_test = TRUE,
        !.cull_face = FALSE,
        !.depth_test = FALSE,
        !.color_mask = <<TRUE, TRUE, TRUE, TRUE>>,
        !.blend_equation = <<"FUNC_ADD", "FUNC_ADD">>,
        !.blend_func = <<"ONE", "ONE_MINUS_SRC_ALPHA", "ONE_MINUS_DST_ALPHA", "ONE">>,
        !.framebuffer_srgb = IF TargetIsWasm32 THEN @ ELSE TRUE,
        !.viewport = <<0, 0, as_i32(size[1]), as_i32(size[2])>>,
        !.program = "painter",
        !.u_screen_size = <<size[1], size[2], ppp>>,
        !.u_sampler = 0,
        !.active_texture = 0,
        !.vertex_array = "painter",
        !.element_array_buffer = "painter"]

\* Painter::prepare_painting: the device state it establishes.  The screen-size
\* uniform is width/pixels_per_point, height/pixels_per_point, kept as the
\* three numbers <<width, height, pixels_per_point>>.
prepare_painting(g, size, ppp) ==
    [g EXCEPT
        !.scissor_test = TRUE,
        !.cull_face = FALSE,
        !.depth_test = FALSE,
        !.color_mask = <<TRUE, TRUE, TRUE, TRUE>>,
        !.blend = TRUE,
        !.blend_equation = <<"FUNC_ADD", "FUNC_ADD">>,
        !.blend_func = <<"ONE", "ONE_MINUS_SRC_ALPHA", "ONE_MINUS_DST_ALPHA", "ONE">>,
        !.framebuffer_srgb = IF TargetIsWasm32 THEN @ ELSE TRUE,
        !.viewport = <<0, 0, as_i32(size[1]), as_i32(size[2])>>,
        !.program = "painter",
        !.u_screen_size = <<size[1], size[2], ppp>>,
        !.u_sampler = 0,
        !.active_texture = 0,
        !.vertex_array = "painter",
        !.element_array_buffer = "painter"]

\* gl.delete_texture for every entry of the sequence dels, in order.
DeleteTextures(dels) ==
    /\ glTextures' = glTextures \ Range(dels)
    /\ glStorage' = [h \in Handles |-> IF h \in Range(dels) THEN NoStorage ELSE glStorage[h]]
    /\ glDeleteCount' = [h \in Handles |-> glDeleteCount[h] + Occurrences(dels, h)]
    /\ gl' = [gl EXCEPT !.texture_2d = IF @ \in Range(dels) THEN NoHandle ELSE @]

DeleteEvents(dels) == [j \in 1..Len(dels) |-> Ev("delete_texture", NoId, dels[j], 0, FALSE)]

(* ------------------------------------------------------------------ *)
(* The texture table                                                  *)
(* ------------------------------------------------------------------ *)

\* Painter::assert_not_destroyed passes.
assert_not_destroyed == ~destroyed

\* Painter::texture
texture(texture_id) == IF texture_id \in DOMAIN textures THEN textures[texture_id] ELSE NoHandle

\* The assertions without the one on max_texture_side
ImageAssertsPass_NoMaxSide(delta) ==
    LET w == delta.size[1]
        h == delta.size[2]
    IN  /\ w * h = Len(delta.pixels)
        /\ Len(delta.pixels) * 4 = w * h * 4
        /\ w >= 1 /\ h >= 1

\* The three assertions on the image of a set_texture call: the texel count
\* (set_texture), then the byte count, the minimum and the maximum side
\* (upload_texture_srgb).  The data is four bytes per pixel.
ImageAssertsPass(delta) ==
    LET w == delta.size[1]
        h == delta.size[2]
    IN  /\ w * h = Len(delta.pixels)
        /\ Len(delta.pixels) * 4 = w * h * 4
        /\ w >= 1 /\ h >= 1
        /\ w <= MaxTextureSide /\ h <= MaxTextureSide

\* gl.tex_sub_image_2d is accepted by the device: the region lies inside the
\* storage allocated for the bound texture.
SubImageFits(st, delta) ==
    /\ st.w >= 1 /\ st.h >= 1
    /\ delta.pos[1] + delta.size[1] <= st.w
    /\ delta.pos[2] + delta.size[2] <= st.h

\* tex_sub_image_2d called with the offset (0, 0) whatever delta.pos is
SubImage_AtOrigin(st, delta) ==
    LET w == delta.size[1]
        h == delta.size[2]
    IN  [st EXCEPT !.px =
            [j \in 1..Len(st.px) |->
                LET cx == (j - 1) % st.w
                    cy == (j - 1) \div st.w
                IN  IF cx \in 0..(w - 1) /\ cy \in 0..(h - 1)
                    THEN delta.pixels[cy * w + cx + 1]
                    ELSE st.px[j]]]

\* Storage st with the pixels of delta written at delta.pos (row-major).
SubImage(st, delta) ==
    LET x == delta.pos[1]
        y == delta.pos[2]
        w == delta.size[1]
        h == delta.size[2]
    IN  [st EXCEPT !.px =
            [j \in 1..Len(st.px) |->
                LET cx == (j - 1) % st.w
                    cy == (j - 1) \div st.w
                IN  IF cx \in x..(x + w - 1) /\ cy \in y..(y + h - 1)
                    THEN delta.pixels[(cy - y) * w + (cx - x) + 1]
                    ELSE st.px[j]]]

\* upload_texture_srgb without the `if let Some([x, y]) = pos` branch: every
\* image goes to tex_image_2d
upload_texture_srgb_IgnoresPos(st, delta) ==
    [w |-> delta.size[1], h |-> delta.size[2], px |-> delta.pixels]

\* upload_texture_srgb after its assertions: tex_image_2d for a full image,
\* tex_sub_image_2d for a patch (which the device rejects when it does not fit).
upload_texture_srgb(st, delta) ==
    IF delta.pos = NoPos
    THEN [w |-> delta.size[1], h |-> delta.size[2], px |-> delta.pixels]
    ELSE IF SubImageFits(st, delta) THEN SubImage(st, delta) ELSE st

UploadEvents(st, tex_id, h, delta) ==
    IF delta.pos = NoPos THEN <<Ev("tex_image_2d", tex_id, h, 0, FALSE)>>
    ELSE IF SubImageFits(st, delta) THEN <<Ev("tex_sub_image_2d", tex_id, h, 0, FALSE)>>
    ELSE <<Ev("gl_error", tex_id, h, 0, FALSE)>>

\* set_texture creating a texture for every full image, also when the id has one
set_texture_RecreatesOnFull(tex_id, delta, log, done) ==
    IF ~assert_not_destroyed
    THEN /\ outcome' = "panic"
         /\ events' = log
         /\ UNCHANGED <<textures, gl, glTextures, glStorage>>
    ELSE IF (tex_id \notin DOMAIN textures \/ delta.pos = NoPos) /\ Handles \ glTextures = {}
    THEN /\ outcome' = "panic"
         /\ events' = Append(log, Ev("create_texture_failed", tex_id, NoHandle, 0, FALSE))
         /\ UNCHANGED <<textures, gl, glTextures, glStorage>>
    ELSE \E h \in (IF tex_id \in DOMAIN textures /\ delta.pos # NoPos
                   THEN {textures[tex_id]} ELSE Handles \ glTextures) :
         LET created == h \notin glTextures
             st == IF created THEN NoStorage ELSE glStorage[h]
             valid == ImageAssertsPass(delta)
         IN  /\ textures' = MapInsert(textures, tex_id, h)
             /\ glTextures' = IF created THEN glTextures \cup {h} ELSE glTextures
             /\ gl' = [gl EXCEPT !.texture_2d = h]
             /\ glStorage' = [glStorage EXCEPT ![h] = IF valid THEN upload_texture_srgb(st, delta) ELSE st]
             /\ events' = log
                    \o (IF created THEN <<Ev("create_texture", tex_id, h, 0, FALSE)>> ELSE <<>>)
                    \o (IF valid THEN UploadEvents(st, tex_id, h, delta) ELSE <<>>)
             /\ outcome' = IF valid THEN done ELSE "panic"

\* Painter::set_texture.  log is the event log to extend and done the outcome
\* of a call that returns.
set_texture(tex_id, delta, log, done) ==
    IF ~assert_not_destroyed
    THEN /\ outcome' = "panic"
         /\ events' = log
         /\ UNCHANGED <<textures, gl, glTextures, glStorage>>
    ELSE IF tex_id \notin DOMAIN textures /\ Handles \ glTextures = {}
    THEN \* gl.create_texture() fails and unwrap() panics inside or_insert_with
         /\ outcome' = "panic"
         /\ events' = Append(log, Ev("create_texture_failed", tex_id, NoHandle, 0, FALSE))
         /\ UNCHANGED <<textures, gl, glTextures, glStorage>>
    ELSE \E h \in (IF tex_id \in DOMAIN textures THEN {textures[tex_id]} ELSE Handles \ glTextures) :
         LET created == tex_id \notin DOMAIN textures
             st == IF created THEN NoStorage ELSE glStorage[h]
             valid == ImageAssertsPass(delta)
         IN  /\ textures' = MapInsert(textures, tex_id, h)
             /\ glTextures' = IF created THEN glTextures \cup {h} ELSE glTextures
             /\ gl' = [gl EXCEPT !.texture_2d = h]
             /\ glStorage' = [glStorage EXCEPT ![h] = IF valid THEN upload_texture_srgb(st, delta) ELSE st]
             /\ events' = log
                    \o (IF created THEN <<Ev("create_texture", tex_id, h, 0, FALSE)>> ELSE <<>>)
                    \o (IF valid THEN UploadEvents(st, tex_id, h, delta) ELSE <<>>)
             /\ outcome' = IF valid THEN done ELSE "panic"

\* free_texture reading the entry without removing it
free_texture_KeepsEntry(tex_id, log) ==
    IF tex_id \in DOMAIN textures
    THEN /\ textures' = textures
         /\ DeleteTextures(<<textures[tex_id]>>)
         /\ events' = Append(log, Ev("delete_texture", tex_id, textures[tex_id], 0, FALSE))
    ELSE /\ events' = log
         /\ UNCHANGED <<textures, gl, glTextures, glStorage, glDeleteCount>>

\* free_texture deleting the pending textures as well
free_texture_FlushesPending(tex_id, log) ==
    IF tex_id \in DOMAIN textures
    THEN /\ textures' = MapRemove(textures, tex_id)
         /\ DeleteTextures(<<textures[tex_id]>> \o textures_to_destroy)
         /\ events' = Append(log, Ev("delete_texture", tex_id, textures[tex_id], 0, FALSE))
                \o DeleteEvents(textures_to_destroy)
    ELSE /\ events' = log
         /\ UNCHANGED <<textures, gl, glTextures, glStorage, glDeleteCount>>

\* Painter::free_texture
free_texture(tex_id, log) ==
    IF tex_id \in DOMAIN textures
    THEN /\ textures' = MapRemove(textures, tex_id)
         /\ DeleteTextures(<<textures[tex_id]>>)
         /\ events' = Append(log, Ev("delete_texture", tex_id, textures[tex_id], 0, FALSE))
    ELSE /\ events' = log
         /\ UNCHANGED <<textures, gl, glTextures, glStorage, glDeleteCount>>

\* Ids a caller can name: a managed id, the ids register_native_texture has
\* returned, and the one it would return next.
CallerIds == {Managed(<<0, 0>>)} \cup {User(<<NativeIdBase[1], n>>) : n \in NativeIdBase[2]..next_native_tex_id[2]}

\* A public method is entered: no frame is running and the painter has not
\* been dropped.
Enter(op, id, h, ret) ==
    /\ pc = "idle"
    /\ call.op # "drop"
    /\ nCalls < MaxCalls
    /\ nCalls' = nCalls + 1
    /\ call' = [op |-> op, id |-> id, h |-> h, ret |-> ret]

\* A method of the texture table is entered; it runs to its end in one step.
Method(op, id, h, ret) ==
    /\ Enter(op, id, h, ret)
    /\ frame' = NoFrame
    /\ UNCHANGED <<pc, idx, cbCalls>>

\* The arguments of a set_texture call, kept as a frame that sets one texture.
SetTextureArgs(tex_id, delta) == Frame(<<0, 0>>, 1, <<>>, <<<<tex_id, delta>>>>, <<>>, FALSE)

\* pub fn set_texture
SetTexture(tex_id, delta) ==
    /\ Enter("set_texture", tex_id, NoHandle, NoId)
    /\ frame' = SetTextureArgs(tex_id, delta)
    /\ UNCHANGED <<pc, idx, cbCalls>>
    /\ set_texture(tex_id, delta, <<>>, "ok")
    /\ UNCHANGED <<next_native_tex_id, textures_to_destroy, destroyed, post_process,
                   glDeleteCount, glObjects, registered, returned, destroyCalled>>

\* pub fn free_texture
FreeTexture(tex_id) ==
    /\ Method("free_texture", tex_id, NoHandle, NoId)
    /\ free_texture(tex_id, <<>>)
    /\ outcome' = "ok"
    /\ UNCHANGED <<next_native_tex_id, textures_to_destroy, destroyed, post_process,
                   glObjects, registered, returned, destroyCalled>>

\* register_native_texture inserting under the id after the one it returns
RegisterNativeTexture_InsertsAtNextId(native) ==
    IF ~assert_not_destroyed
    THEN /\ Method("register_native_texture", NoId, native, NoId)
         /\ outcome' = "panic"
         /\ events' = <<>>
         /\ UNCHANGED <<painterVars, deviceVars, registered, returned, destroyCalled>>
    ELSE /\ Method("register_native_texture", NoId, native, User(next_native_tex_id))
         /\ registered' = registered \cup {native}
         /\ returned' = returned \cup {User(next_native_tex_id)}
         /\ UNCHANGED destroyCalled
         /\ next_native_tex_id' = Incr(next_native_tex_id)
         /\ textures' = MapInsert(textures, User(Incr(next_native_tex_id)), native)
         /\ glTextures' = glTextures \cup {native}
         /\ outcome' = "ok"
         /\ events' = <<>>
         /\ UNCHANGED <<textures_to_destroy, destroyed, post_process,
                        gl, glStorage, glDeleteCount, glObjects>>

\* pub fn register_native_texture.  The texture handed in is one the caller
\* has on the device: a name not live there is one the caller has just created.
RegisterNativeTexture(native) ==
    IF ~assert_not_destroyed
    THEN /\ Method("register_native_texture", NoId, native, NoId)
         /\ outcome' = "panic"
         /\ events' = <<>>
         /\ UNCHANGED <<painterVars, deviceVars, registered, returned, destroyCalled>>
    ELSE /\ Method("register_native_texture", NoId, native, User(next_native_tex_id))
         /\ registered' = registered \cup {native}
         /\ returned' = returned \cup {User(next_native_tex_id)}
         /\ UNCHANGED destroyCalled
         /\ next_native_tex_id' = Incr(next_native_tex_id)
         /\ textures' = MapInsert(textures, User(next_native_tex_id), native)
         /\ glTextures' = glTextures \cup {native}
         /\ outcome' = "ok"
         /\ events' = <<>>
         /\ UNCHANGED <<textures_to_destroy, destroyed, post_process,
                        gl, glStorage, glDeleteCount, glObjects>>

\* replace_native_texture deleting the replaced texture at once
ReplaceNativeTexture_DeletesOld(id, replacing) ==
    /\ Method("replace_native_texture", id, replacing, NoId)
    /\ textures' = MapInsert(textures, id, replacing)
    /\ IF id \in DOMAIN textures
       THEN /\ glDeleteCount' = [glDeleteCount EXCEPT ![textures[id]] = @ + 1]
            /\ glTextures' = (glTextures \ {textures[id]}) \cup {replacing}
            /\ events' = <<Ev("delete_texture", id, textures[id], 0, FALSE)>>
       ELSE /\ glTextures' = glTextures \cup {replacing}
            /\ events' = <<>>
            /\ UNCHANGED glDeleteCount
    /\ outcome' = "ok"
    /\ UNCHANGED <<next_native_tex_id, textures_to_destroy, destroyed, post_process,
                   gl, glStorage, glObjects, registered, returned, destroyCalled>>

\* pub fn replace_native_texture, the handle as for register_native_texture
ReplaceNativeTexture(id, replacing) ==
    /\ Method("replace_native_texture", id, replacing, NoId)
    /\ textures' = MapInsert(textures, id, replacing)
    /\ textures_to_destroy' =
            IF id \in DOMAIN textures
            THEN Append(textures_to_destroy, textures[id])
            ELSE textures_to_destroy
    /\ glTextures' = glTextures \cup {replacing}
    /\ outcome' = "ok"
    /\ events' = <<>>
    /\ UNCHANGED <<next_native_tex_id, destroyed, post_process,
                   gl, glStorage, glDeleteCount, glObjects, registered, returned, destroyCalled>>

\* Painter::destroy_gl: the program, every value of the table (in the map's
\* iteration order ord), the two buffers, every pending texture.
destroy_gl(ord) ==
    LET vals == [j \in 1..Len(ord) |-> textures[ord[j]]]
    IN  /\ DeleteTextures(vals \o textures_to_destroy)
        /\ glObjects' = FALSE
        /\ events' = <<Ev("delete_program", NoId, NoHandle, 0, FALSE)>>
               \o DeleteEvents(vals)
               \o <<Ev("delete_buffer", NoId, NoHandle, 0, FALSE),
                    Ev("delete_buffer", NoId, NoHandle, 0, FALSE)>>
               \o DeleteEvents(textures_to_destroy)
               \o (IF post_process THEN <<Ev("post_process_destroy", NoId, NoHandle, 0, FALSE)>> ELSE <<>>)

\* destroy without its `if !self.destroyed`
Destroy_Unguarded ==
    /\ Method("destroy", NoId, NoHandle, NoId)
    /\ outcome' = "ok"
    /\ \E ord \in Orders(DOMAIN textures) : destroy_gl(ord)
    /\ destroyed' = TRUE
    /\ UNCHANGED <<textures, next_native_tex_id, textures_to_destroy, post_process, registered, returned>>
    /\ destroyCalled' = TRUE

\* pub fn destroy
Destroy ==
    /\ Method("destroy", NoId, NoHandle, NoId)
    /\ outcome' = "ok"
    /\ IF ~destroyed
       THEN /\ \E ord \in Orders(DOMAIN textures) : destroy_gl(ord)
            /\ destroyed' = TRUE
       ELSE /\ events' = <<>>
            /\ UNCHANGED <<destroyed, deviceVars>>
    /\ UNCHANGED <<textures, next_native_tex_id, textures_to_destroy, post_process, registered, returned>>
    /\ destroyCalled' = TRUE

\* The diagnostic of Drop, on a painter whose destroyed flag is d.
DropWarning_Always(d) == <<Ev("warn_forgot_destroy", NoId, NoHandle, 0, FALSE)>>

\* impl Drop for Painter: the warning it logs.
DropWarning(d) == IF ~d THEN <<Ev("warn_forgot_destroy", NoId, NoHandle, 0, FALSE)>> ELSE <<>>

\* The painter is dropped, between two calls; no method is called afterwards.
Drop ==
    /\ pc = "idle"
    /\ call.op # "drop"
    /\ call' = [op |-> "drop", id |-> NoId, h |-> NoHandle, ret |-> NoId]
    /\ outcome' = "ok"
    /\ events' = DropWarning(destroyed)
    /\ frame' = NoFrame
    /\ UNCHANGED <<painterVars, deviceVars, registered, returned, destroyCalled,
                   pc, idx, cbCalls, nCalls>>

(* ------------------------------------------------------------------ *)
(* Frames                                                             *)
(* ------------------------------------------------------------------ *)

\* emath::Rect, its coordinates numerators over CoordDen.
Rect(x0, y0, x1, y1) == [min |-> <<x0, y0>>, max |-> <<x1, y1>>]

\* is_positive looking at the width only
is_positive_WidthOnly(r) == r.min[1] < r.max[1]

\* Rect::is_positive
is_positive(r) == r.min[1] < r.max[1] /\ r.min[2] < r.max[2]

\* f32::round of n/d (half away from zero), then `as i32` (saturating).
Round(n, d) ==
    LET r == IF n >= 0 THEN (2 * n + d) \div (2 * d) ELSE -((2 * (-n) + d) \div (2 * d))
    IN  IF r > 2147483647 THEN 2147483647 ELSE IF r < -2147483647 - 1 THEN -2147483647 - 1 ELSE r

\* pixels_per_point * coordinate, rounded to a pixel.
ToPixel(ppp, c) == Round(ppp * c, CoordDen)

\* i32::clamp(lo, hi)
Clamp(v, lo, hi) == IF v < lo THEN lo ELSE IF v > hi THEN hi ELSE v

\* set_clip_rect without the flip of the vertical axis
set_clip_rect_NoFlip(size, ppp, clip) ==
    LET w == as_i32(size[1])
        h == as_i32(size[2])
        clip_min_x == Clamp(ToPixel(ppp, clip.min[1]), 0, w)
        clip_min_y == Clamp(ToPixel(ppp, clip.min[2]), 0, h)
        clip_max_x == Clamp(ToPixel(ppp, clip.max[1]), clip_min_x, w)
        clip_max_y == Clamp(ToPixel(ppp, clip.max[2]), clip_min_y, h)
    IN  <<clip_min_x, clip_min_y, clip_max_x - clip_min_x, clip_max_y - clip_min_y>>

\* set_clip_rect: the box handed to gl.scissor.
set_clip_rect(size, ppp, clip) ==
    LET w == as_i32(size[1])
        h == as_i32(size[2])
        clip_min_x == Clamp(ToPixel(ppp, clip.min[1]), 0, w)
        clip_min_y == Clamp(ToPixel(ppp, clip.min[2]), 0, h)
        clip_max_x == Clamp(ToPixel(ppp, clip.max[1]), clip_min_x, w)
        clip_max_y == Clamp(ToPixel(ppp, clip.max[2]), clip_min_y, h)
    IN  <<clip_min_x, h - clip_max_y, clip_max_x - clip_min_x, clip_max_y - clip_min_y>>

\* The viewport a callback is given.
CallbackViewport(size, ppp, rect) ==
    LET rect_min_x == ToPixel(ppp, rect.min[1])
        rect_min_y == ToPixel(ppp, rect.min[2])
        rect_max_x == ToPixel(ppp, rect.max[1])
        rect_max_y == ToPixel(ppp, rect.max[2])
    IN  <<rect_min_x, as_i32(size[2]) - rect_max_y, rect_max_x - rect_min_x, rect_max_y - rect_min_y>>

\* egui::ClippedPrimitive with Primitive::Mesh
Mesh(clip, tex) == [kind |-> "Mesh", clip |-> clip, tex |-> tex, rect |-> Rect(0, 0, 0, 0), fn |-> FALSE]

\* egui::ClippedPrimitive with Primitive::Callback; fn: the payload is a CallbackFn.
Callback(clip, rect, fn) == [kind |-> "Callback", clip |-> clip, tex |-> NoId, rect |-> rect, fn |-> fn]

\* epaint::ImageDelta
FullImage(w, h, px) == [pos |-> NoPos, size |-> <<w, h>>, pixels |-> px]

PatchImage(x, y, w, h, px) == [pos |-> <<x, y>>, size |-> <<w, h>>, pixels |-> px]

\* The frame call is over: it returned (how = "ok") or panicked.
FrameOver(how) ==
    /\ pc' = "idle"
    /\ outcome' = how
    /\ frame' = frame
    /\ idx' = 0
    /\ cbCalls' = 0

\* paint_and_update_textures with its frees moved before the painting
FirstPhase_FreesFirst(fr) == IF fr.free # <<>> THEN "free" ELSE IF fr.set = <<>> THEN "enter" ELSE "set"

\* paint_and_update_textures begins with its texture updates, then paints.
FirstPhase(fr) == IF fr.set = <<>> THEN "enter" ELSE "set"

\* pub fn paint_and_update_textures, entered
PaintAndUpdateTexturesCall(fr) ==
    /\ fr.with_textures
    /\ Enter("paint_and_update_textures", NoId, NoHandle, NoId)
    /\ frame' = fr
    /\ pc' = FirstPhase(fr)
    /\ idx' = 1
    /\ cbCalls' = 0
    /\ outcome' = "running"
    /\ events' = <<>>
    /\ UNCHANGED <<painterVars, deviceVars, registered, returned, destroyCalled>>

\* pub fn paint_primitives, entered
PaintPrimitivesCall(fr) ==
    /\ ~fr.with_textures
    /\ Enter("paint_primitives", NoId, NoHandle, NoId)
    /\ frame' = fr
    /\ pc' = "enter"
    /\ idx' = 1
    /\ cbCalls' = 0
    /\ outcome' = "running"
    /\ events' = <<>>
    /\ UNCHANGED <<painterVars, deviceVars, registered, returned, destroyCalled>>

\* paint_and_update_textures: one turn of `for (id, image_delta) in &textures_delta.set`
FrameSetTexture ==
    /\ pc = "set"
    /\ LET id == frame.set[idx][1]
           delta == frame.set[idx][2]
       IN  set_texture(id, delta, Append(events, Ev("set_texture", id, NoHandle, 0, FALSE)), "running")
    /\ IF outcome' = "panic"
       THEN /\ pc' = "idle" /\ frame' = frame /\ idx' = 0
       ELSE /\ pc' = IF idx = Len(frame.set) THEN "enter" ELSE "set"
            /\ frame' = frame
            /\ idx' = IF idx = Len(frame.set) THEN 1 ELSE idx + 1
    /\ UNCHANGED <<next_native_tex_id, textures_to_destroy, destroyed, post_process,
                   glDeleteCount, glObjects, registered, returned, destroyCalled, cbCalls, call, nCalls>>

\* paint_primitives up to its loop: the assertion, the intermediate pass begun,
\* bound and cleared, prepare_painting.
PaintEnter ==
    /\ pc = "enter"
    /\ IF ~assert_not_destroyed
       THEN /\ FrameOver("panic")
            /\ UNCHANGED <<gl, events>>
       ELSE /\ events' = events \o
                    (IF post_process
                     THEN <<Ev("post_process_begin", NoId, NoHandle, 0, FALSE),
                            Ev("post_process_bind", NoId, NoHandle, 0, FALSE),
                            Ev("clear", NoId, NoHandle, 0, FALSE)>>
                     ELSE <<>>)
            /\ gl' = prepare_painting(
                        IF post_process
                        THEN [gl EXCEPT !.framebuffer = "post_process", !.scissor_test = FALSE,
                                        !.viewport = <<0, 0, as_i32(frame.size[1]), as_i32(frame.size[2])>>]
                        ELSE gl,
                        frame.size, frame.ppp)
            /\ pc' = "loop"
            /\ idx' = 1
            /\ UNCHANGED <<frame, cbCalls, outcome>>
    /\ UNCHANGED <<painterVars, glTextures, glStorage, glDeleteCount, glObjects, registered, returned, destroyCalled, call, nCalls>>

\* paint_mesh drawing with the texture left bound when the id has no entry
PaintMesh_DrawsWithoutTexture ==
    /\ pc = "loop"
    /\ idx <= Len(frame.prims)
    /\ frame.prims[idx].kind = "Mesh"
    /\ LET p == frame.prims[idx]
           box == set_clip_rect(frame.size, frame.ppp, p.clip)
       IN  /\ gl' = [gl EXCEPT !.scissor = box, !.array_buffer = "painter",
                               !.element_array_buffer = "painter",
                               !.texture_2d = IF p.tex \in DOMAIN textures THEN texture(p.tex) ELSE @]
           /\ events' = Append(events, Ev("draw_elements", p.tex, texture(p.tex), idx, gl.depth_test))
    /\ idx' = idx + 1
    /\ UNCHANGED <<painterVars, glTextures, glStorage, glDeleteCount, glObjects, registered, returned, destroyCalled,
                   pc, frame, cbCalls, call, outcome, nCalls>>

\* paint_mesh looking the texture up with textures.entry(id).or_insert_with as
\* set_texture does: a missing id gets a texture and an entry
PaintMesh_InsertsMissing ==
    /\ pc = "loop"
    /\ idx <= Len(frame.prims)
    /\ frame.prims[idx].kind = "Mesh"
    /\ LET p == frame.prims[idx]
           box == set_clip_rect(frame.size, frame.ppp, p.clip)
           h == IF p.tex \in DOMAIN textures THEN textures[p.tex]
                ELSE IF Handles \ glTextures = {} THEN NoHandle
                ELSE CHOOSE x \in Handles \ glTextures : TRUE
       IN  IF h # NoHandle
           THEN /\ textures' = MapInsert(textures, p.tex, h)
                /\ glTextures' = glTextures \cup {h}
                /\ gl' = [gl EXCEPT !.scissor = box, !.array_buffer = "painter",
                                    !.element_array_buffer = "painter",
                                    !.texture_2d = h]
                /\ events' = Append(events, Ev("draw_elements", p.tex, h, idx, gl.depth_test))
           ELSE /\ gl' = [gl EXCEPT !.scissor = box]
                /\ events' = Append(events, Ev("warn_missing_texture", p.tex, NoHandle, idx, FALSE))
                /\ UNCHANGED <<textures, glTextures>>
    /\ idx' = idx + 1
    /\ UNCHANGED <<next_native_tex_id, textures_to_destroy, destroyed, post_process,
                   glStorage, glDeleteCount, glObjects, registered, returned, destroyCalled,
                   pc, frame, cbCalls, call, outcome, nCalls>>

\* One turn of the loop on a mesh: set_clip_rect, then Painter::paint_mesh.
\* The draw event records the texture bound and the depth test at the draw.
PaintMesh ==
    /\ pc = "loop"
    /\ idx <= Len(frame.prims)
    /\ frame.prims[idx].kind = "Mesh"
    /\ LET p == frame.prims[idx]
           box == set_clip_rect(frame.size, frame.ppp, p.clip)
       IN  IF p.tex \in DOMAIN textures
           THEN /\ gl' = [gl EXCEPT !.scissor = box, !.array_buffer = "painter",
                                    !.element_array_buffer = "painter",
                                    !.texture_2d = texture(p.tex)]
                /\ events' = Append(events, Ev("draw_elements", p.tex, texture(p.tex), idx, gl.depth_test))
           ELSE /\ gl' = [gl EXCEPT !.scissor = box]
                /\ events' = Append(events, Ev("warn_missing_texture", p.tex, NoHandle, idx, FALSE))
    /\ idx' = idx + 1
    /\ UNCHANGED <<painterVars, glTextures, glStorage, glDeleteCount, glObjects, registered, returned, destroyCalled,
                   pc, frame, cbCalls, call, outcome, nCalls>>

\* paint_primitives never binding the intermediate pass again
PostProcessBind_Never(i) == <<>>

\* `if let Some(post_process) = self.post_process { post_process.bind() }` after
\* the callback of primitive i.
PostProcessBind(i) == IF post_process THEN <<Ev("post_process_bind", NoId, NoHandle, i, FALSE)>> ELSE <<>>

\* paint_primitives without the restore after a callback
RestoreAfterCallback_Skipped(g) == g

\* The state paint_primitives restores after a callback: the intermediate
\* pass bound again, then prepare_painting.
RestoreAfterCallback(g) ==
    prepare_painting([g EXCEPT !.framebuffer = IF post_process THEN "post_process" ELSE @],
                     frame.size, frame.ppp)

\* One turn of the loop on a callback primitive: set_clip_rect; for a positive
\* rectangle the viewport, then the CallbackFn is entered (or the payload is
\* not one: a warning, and the state is restored at once).
PaintCallback ==
    /\ pc = "loop"
    /\ idx <= Len(frame.prims)
    /\ frame.prims[idx].kind = "Callback"
    /\ LET p == frame.prims[idx]
           box == set_clip_rect(frame.size, frame.ppp, p.clip)
           view == CallbackViewport(frame.size, frame.ppp, p.rect)
       IN  IF ~is_positive(p.rect)
           THEN /\ gl' = [gl EXCEPT !.scissor = box]
                /\ UNCHANGED <<events, pc>>
                /\ idx' = idx + 1
           ELSE IF p.fn
           THEN /\ gl' = [gl EXCEPT !.scissor = box, !.viewport = view]
                /\ events' = Append(events, Ev("callback", NoId, NoHandle, idx, FALSE))
                /\ pc' = "callback"
                /\ idx' = idx
           ELSE /\ gl' = RestoreAfterCallback([gl EXCEPT !.scissor = box, !.viewport = view])
                /\ events' = events
                        \o <<Ev("warn_unsupported_callback", NoId, NoHandle, idx, FALSE)>>
                        \o PostProcessBind(idx)
                /\ pc' = pc
                /\ idx' = idx + 1
    /\ cbCalls' = 0
    /\ UNCHANGED <<painterVars, glTextures, glStorage, glDeleteCount, glObjects, registered, returned, destroyCalled,
                   frame, call, outcome, nCalls>>

\* The callback body makes one device call: it changes one piece of device state.
CallbackGlCall ==
    /\ pc = "callback"
    /\ cbCalls < MaxCbCalls
    /\ \E f \in GlFields : gl' = [gl EXCEPT ![f] = GlDirty[f]]
    /\ cbCalls' = cbCalls + 1
    /\ UNCHANGED <<painterVars, glTextures, glStorage, glDeleteCount, glObjects, registered, returned, destroyCalled,
                   pc, frame, idx, call, outcome, events, nCalls>>

\* The callback body deletes, through painter.gl(), the device texture that
\* painter.texture(id) gives it for an id of the table (a texture of the device:
\* deleting it again would change nothing there).  The reference it holds
\* is a `&Painter`: it can call gl(), max_texture_side(), intermediate_fbo()
\* and texture(), none of which changes a field of the painter.
CallbackDeletesTexture ==
    /\ pc = "callback"
    /\ cbCalls < MaxCbCalls
    /\ \E id \in DOMAIN textures : texture(id) \in glTextures /\ DeleteTextures(<<texture(id)>>)
    /\ cbCalls' = cbCalls + 1
    /\ UNCHANGED <<painterVars, glObjects, registered, returned, destroyCalled,
                   pc, frame, idx, call, outcome, events, nCalls>>

\* The callback returns and paint_primitives restores the state.  The log
\* notes whether the body had changed state that prepare_painting sets
\* (besides the viewport, which paint_primitives itself had changed).
CallbackReturn ==
    /\ pc = "callback"
    /\ gl' = RestoreAfterCallback(gl)
    /\ events' = events
            \o <<Ev("callback_returned", NoId, NoHandle, idx,
                    \E f \in PreparedFields \ {"viewport"} : gl[f] # prepare_painting(gl, frame.size, frame.ppp)[f])>>
            \o PostProcessBind(idx)
    /\ pc' = "loop"
    /\ idx' = idx + 1
    /\ cbCalls' = 0
    /\ UNCHANGED <<painterVars, glTextures, glStorage, glDeleteCount, glObjects, registered, returned, destroyCalled,
                   frame, call, outcome, nCalls>>

\* The exit of paint_primitives leaving the element array buffer bound
UnbindAtExit_KeepsElementBuffer(g) ==
    [g EXCEPT !.vertex_array = "none",
              !.framebuffer = IF post_process THEN "screen" ELSE @,
              !.scissor_test = FALSE]

\* The device state after the exit of paint_primitives: vao.unbind, the element
\* array buffer unbound, post_process.end, the scissor test disabled.
UnbindAtExit(g) ==
    [g EXCEPT !.vertex_array = "none", !.element_array_buffer = "none",
              !.framebuffer = IF post_process THEN "screen" ELSE @,
              !.scissor_test = FALSE]

\* paint_primitives after its loop: unbind, end the intermediate pass,
\* disable the scissor test.  paint_and_update_textures goes on to its frees.
PaintExit ==
    /\ pc = "loop"
    /\ idx > Len(frame.prims)
    /\ gl' = UnbindAtExit(gl)
    /\ events' = events \o (IF post_process THEN <<Ev("post_process_end", NoId, NoHandle, 0, FALSE)>> ELSE <<>>)
    /\ IF frame.with_textures /\ frame.free # <<>>
       THEN /\ pc' = "free" /\ idx' = 1
            /\ UNCHANGED <<frame, cbCalls, outcome>>
       ELSE FrameOver("ok")
    /\ UNCHANGED <<painterVars, glTextures, glStorage, glDeleteCount, glObjects, registered, returned, destroyCalled, call, nCalls>>

\* paint_and_update_textures: one turn of `for &id in &textures_delta.free`
FrameFreeTexture ==
    /\ pc = "free"
    /\ free_texture(frame.free[idx], Append(events, Ev("free_texture", frame.free[idx], NoHandle, 0, FALSE)))
    /\ IF idx = Len(frame.free)
       THEN FrameOver("ok")
       ELSE /\ idx' = idx + 1
            /\ UNCHANGED <<pc, frame, cbCalls, outcome>>
    /\ UNCHANGED <<next_native_tex_id, textures_to_destroy, destroyed, post_process,
                   glObjects, registered, returned, destroyCalled, call, nCalls>>

(* ------------------------------------------------------------------ *)
(* Inputs                                                             *)
(* ------------------------------------------------------------------ *)

\* Primitives in one frame of SpecPaint.
MaxPrims == 2

ScreenSize == <<4, 3>>

ClipA == Rect(1, 1, 5, 4)

ClipB == Rect(-2, 0, 20, 3)

RectPositive == Rect(0, 0, 4, 4)

RectEmpty == Rect(2, 2, 2, 6)

RectFlat == Rect(0, 4, 4, 2)

Image1x1 == FullImage(1, 1, <<7>>)

Image2x1 == FullImage(2, 1, <<5, 6>>)

Patch1x1 == PatchImage(0, 0, 1, 1, <<9>>)

ImageBad == FullImage(0, 1, <<>>)

\* Image deltas of the set_texture calls of Spec.
SpecDeltas == {Image1x1, Patch1x1, ImageBad}

\* Frames of Spec: meshes only.
SpecFrames ==
    {Frame(ScreenSize, 2, <<Mesh(ClipA, Managed(<<0, 0>>))>>, <<>>, <<>>, FALSE),
     Frame(ScreenSize, 2, <<Mesh(ClipA, Managed(<<0, 0>>))>>,
           <<<<Managed(<<0, 0>>), Image1x1>>>>, <<Managed(<<0, 0>>)>>, TRUE)}

SeqsUpTo(S, n) == UNION {[1..k -> S] : k \in 0..n}

PrimInputs ==
    {Mesh(ClipA, Managed(<<0, 0>>)), Mesh(ClipB, Managed(<<0, 1>>)),
     Callback(ClipA, RectPositive, TRUE), Callback(ClipB, RectEmpty, TRUE),
     Callback(ClipB, RectFlat, TRUE), Callback(ClipA, RectPositive, FALSE)}

\* The primitives of the paint_and_update_textures calls of SpecPaint.
TexturedPrimInputs ==
    {Mesh(ClipA, Managed(<<0, 0>>)), Mesh(ClipB, Managed(<<0, 1>>)),
     Callback(ClipA, RectPositive, TRUE)}

\* The texture deltas of the paint_and_update_textures calls of SpecPaint.
DeltaInputs ==
    {[set |-> <<<<Managed(<<0, 1>>), Image2x1>>, <<Managed(<<0, 0>>), Patch1x1>>>>, free |-> <<Managed(<<0, 1>>), Managed(<<0, 0>>)>>],
     [set |-> <<<<Managed(<<0, 1>>), ImageBad>>>>, free |-> <<Managed(<<0, 1>>)>>],
     [set |-> <<<<Managed(<<0, 0>>), Image1x1>>, <<Managed(<<0, 0>>), Image2x1>>>>, free |-> <<Managed(<<0, 0>>)>>]}

PaintFrames ==
    {Frame(ScreenSize, 1, prims, <<>>, <<>>, FALSE) : prims \in SeqsUpTo(PrimInputs, MaxPrims)}
    \cup {Frame(ScreenSize, 1, prims, td.set, td.free, TRUE) :
            prims \in SeqsUpTo(TexturedPrimInputs, MaxPrims), td \in DeltaInputs}

\* set_texture calls in one behaviour of SpecTex.
MaxTexCalls == 2

\* n pixels, all different, starting after base.
Fill(n, base) == [j \in 1..n |-> base + j]

\* The image deltas of SpecTex: full images of every size from 0 to one above
\* max_texture_side, in two colourings for the sizes that are allowed, full
\* images with a pixel too few or too many, and patches at every small offset.
TexDeltaInputs ==
    {FullImage(w, h, Fill(w * h, 10)) : w \in 0..(MaxTextureSide + 1), h \in 0..(MaxTextureSide + 1)}
    \cup {FullImage(w, h, Fill(w * h, 20)) : w \in 1..MaxTextureSide, h \in 1..MaxTextureSide}
    \cup {FullImage(1, 1, <<>>), FullImage(1, 1, <<1, 2>>)}
    \cup {PatchImage(x, y, w, h, Fill(w * h, 30)) :
            x \in 0..1, y \in 0..1, w \in 0..MaxTextureSide, h \in 1..MaxTextureSide}

\* Largest clip coordinate of SpecClip, in units of 1/CoordDen.
MaxCoord == 3

\* Largest framebuffer side of SpecClip.
MaxSide == 2

\* Largest pixels_per_point of SpecClip.
MaxPpp == 2

\* One input of set_clip_rect in SpecClip: a framebuffer size, a scale and a
\* clip rectangle (its max may lie below its min).
ClipInput(w, h, ppp, x0, y0, x1, y1) ==
    [size |-> <<w, h>>, ppp |-> ppp, clip |-> Rect(x0, y0, x1, y1)]

\* Clip coordinates of SpecClip.
ClipCoords == -MaxCoord..MaxCoord

\* The 800x600 scenario: a clip rectangle well inside a large framebuffer.
ClipInputTypical ==
    ClipInput(800, 600, 1, 10 * CoordDen, 10 * CoordDen, 50 * CoordDen, 50 * CoordDen)

(* ------------------------------------------------------------------ *)
(* Specifications                                                     *)
(* ------------------------------------------------------------------ *)

\* Painter::new returned Ok: the table is empty, nothing is pending, the
\* intermediate pass exists or not.  The device is in its default state.
Init ==
    /\ textures = EmptyMap
    /\ next_native_tex_id = NativeIdBase
    /\ textures_to_destroy = <<>>
    /\ destroyed = FALSE
    /\ post_process \in BOOLEAN
    /\ gl = GlDefault
    /\ glTextures = {}
    /\ glStorage = [h \in Handles |-> NoStorage]
    /\ glDeleteCount = [h \in Handles |-> 0]
    /\ glObjects = TRUE
    /\ registered = {}
    /\ returned = {}
    /\ destroyCalled = FALSE
    /\ pc = "idle"
    /\ frame = NoFrame
    /\ idx = 0
    /\ cbCalls = 0
    /\ call = [op |-> "new", id |-> NoId, h |-> NoHandle, ret |-> NoId]
    /\ outcome = "ok"
    /\ events = <<>>
    /\ nCalls = 0

\* A fresh painter, or one after set_texture(Managed(0), a 1x1 image), for which
\* the device created texture 1.
InitPaint ==
    \/ Init
    \/ /\ textures = MapInsert(EmptyMap, Managed(<<0, 0>>), 1)
       /\ next_native_tex_id = NativeIdBase
       /\ textures_to_destroy = <<>>
       /\ destroyed = FALSE
       /\ post_process \in BOOLEAN
       /\ gl = [GlDefault EXCEPT !.texture_2d = 1]
       /\ glTextures = {1}
       /\ glStorage = [x \in Handles |-> IF x = 1 THEN upload_texture_srgb(NoStorage, Image1x1) ELSE NoStorage]
       /\ glDeleteCount = [x \in Handles |-> 0]
       /\ glObjects = TRUE
       /\ registered = {}
       /\ returned = {}
       /\ destroyCalled = FALSE
       /\ pc = "idle"
       /\ frame = NoFrame
       /\ idx = 0
       /\ cbCalls = 0
       /\ call = [op |-> "set_texture", id |-> Managed(<<0, 0>>), h |-> NoHandle, ret |-> NoId]
       /\ outcome = "ok"
       /\ events = <<Ev("create_texture", Managed(<<0, 0>>), 1, 0, FALSE), Ev("tex_image_2d", Managed(<<0, 0>>), 1, 0, FALSE)>>
       /\ nCalls = 0

\* The loop of paint_primitives about to call set_clip_rect for a primitive.
InitClipWith(in) ==
    /\ textures = EmptyMap
    /\ next_native_tex_id = NativeIdBase
    /\ textures_to_destroy = <<>>
    /\ destroyed = FALSE
    /\ post_process = FALSE
    /\ gl = prepare_painting(GlDefault, in.size, in.ppp)
    /\ frame = Frame(in.size, in.ppp, <<Mesh(in.clip, Managed(<<0, 0>>))>>, <<>>, <<>>, FALSE)
    /\ glTextures = {}
    /\ glStorage = [h \in Handles |-> NoStorage]
    /\ glDeleteCount = [h \in Handles |-> 0]
    /\ glObjects = TRUE
    /\ registered = {}
    /\ returned = {}
    /\ destroyCalled = FALSE
    /\ pc = "clip"
    /\ idx = 1
    /\ cbCalls = 0
    /\ call = [op |-> "paint_primitives", id |-> NoId, h |-> NoHandle, ret |-> NoId]
    /\ outcome = "running"
    /\ events = <<>>
    /\ nCalls = 1

\* Every small rectangle on every small framebuffer, and the 800x600 scenario.
InitClip ==
    \/ InitClipWith(ClipInputTypical)
    \/ \E w \in 0..MaxSide, h \in 0..MaxSide, ppp \in 1..MaxPpp,
          x0 \in ClipCoords, y0 \in ClipCoords, x1 \in ClipCoords, y1 \in ClipCoords :
            InitClipWith(ClipInput(w, h, ppp, x0, y0, x1, y1))

\* let (x, y, w, h) = set_clip_rect(size_in_pixels, pixels_per_point, clip_rect)
SetClipRect ==
    /\ pc = "clip"
    /\ gl' = [gl EXCEPT !.scissor = set_clip_rect(frame.size, frame.ppp, frame.prims[idx].clip)]
    /\ pc' = "clipped"
    /\ UNCHANGED <<painterVars, glTextures, glStorage, glDeleteCount, glObjects, registered, returned,
                   destroyCalled, frame, idx, cbCalls, call, outcome, events, nCalls>>

NextClip == SetClipRect

SpecClip == InitClip /\ [][NextClip]_vars

\* set_texture calls on one id of a fresh painter.
NextTex ==
    \E delta \in TexDeltaInputs : nCalls < MaxTexCalls /\ SetTexture(Managed(<<0, 0>>), delta)

SpecTex == Init /\ [][NextTex]_vars

\* The texture-table methods, destroy, and frames of meshes.
Next ==
    \/ \E id \in CallerIds, delta \in SpecDeltas : SetTexture(id, delta)
    \/ \E id \in CallerIds : FreeTexture(id)
    \/ \E native \in Handles : RegisterNativeTexture(native)
    \/ \E id \in CallerIds, replacing \in Handles : ReplaceNativeTexture(id, replacing)
    \/ Destroy
    \/ Drop
    \/ \E fr \in SpecFrames : PaintPrimitivesCall(fr)
    \/ \E fr \in SpecFrames : PaintAndUpdateTexturesCall(fr)
    \/ FrameSetTexture
    \/ PaintEnter
    \/ PaintMesh
    \/ PaintExit
    \/ FrameFreeTexture

Spec == Init /\ [][Next]_vars

\* One frame of meshes and callbacks from each initial state.
NextPaint ==
    \/ nCalls = 0 /\ \E fr \in PaintFrames : PaintPrimitivesCall(fr)
    \/ nCalls = 0 /\ \E fr \in PaintFrames : PaintAndUpdateTexturesCall(fr)
    \/ FrameSetTexture
    \/ PaintEnter
    \/ PaintMesh
    \/ PaintCallback
    \/ CallbackGlCall
    \/ CallbackDeletesTexture
    \/ CallbackReturn
    \/ PaintExit
    \/ FrameFreeTexture

SpecPaint == InitPaint /\ [][NextPaint]_vars

(* ------------------------------------------------------------------ *)
(* Properties of a frame                                              *)
(* ------------------------------------------------------------------ *)

\* Places of the log holding an event of one of the kinds.
Places(kinds) == {j \in 1..Len(events) : events[j].e \in kinds}

\* A primitive the loop dispatches: a mesh, or a callback with a positive rectangle.
Dispatched(p) == p.kind = "Mesh" \/ is_positive(p.rect)

DispatchKinds == {"draw_elements", "warn_missing_texture", "callback", "warn_unsupported_callback"}

\* The baseline the frame entry establishes, in the words of the claim: scissor
\* on, cull off, depth off, full color mask, premultiplied-alpha blend, viewport
\* the full framebuffer, the painter's program, uniforms and buffers.
FrameBaseline ==
    [scissor_test |-> TRUE, cull_face |-> FALSE, depth_test |-> FALSE,
     color_mask |-> <<TRUE, TRUE, TRUE, TRUE>>,
     blend |-> TRUE, blend_equation |-> <<"FUNC_ADD", "FUNC_ADD">>,
     blend_func |-> <<"ONE", "ONE_MINUS_SRC_ALPHA", "ONE_MINUS_DST_ALPHA", "ONE">>,
     viewport |-> <<0, 0, frame.size[1], frame.size[2]>>,
     program |-> "painter", u_screen_size |-> <<frame.size[1], frame.size[2], frame.ppp>>,
     u_sampler |-> 0, vertex_array |-> "painter", element_array_buffer |-> "painter"]

\* C1: when the loop is about to take the primitive after a dispatched callback
\* primitive (or to leave, if it was the last), every piece of device state the
\* claim lists equals the baseline of the frame entry, whatever the callback did.
C1_BaselineAfterCallback ==
    (pc = "loop" /\ idx > 1 /\ frame.prims[idx - 1].kind = "Callback" /\ is_positive(frame.prims[idx - 1].rect))
        => \A f \in DOMAIN FrameBaseline : gl[f] = FrameBaseline[f]

\* C1 witness: a callback body that changed state has returned and another
\* primitive is about to be dispatched.
C1_Witness ==
    /\ pc = "loop"
    /\ idx > 1
    /\ idx <= Len(frame.prims)
    /\ \E j \in Places({"callback_returned"}) : events[j].i = idx - 1 /\ events[j].d

\* C2: in one paint_and_update_textures call every set_texture comes before every
\* dispatch and every free_texture after every dispatch; all the sets are done
\* when the first primitive is dispatched and all primitives are dispatched when
\* the first free is done; until then a mesh whose texture is in the table
\* (also one in the free list) is drawn with the table's handle bound.
C2_SetThenPaintThenFree ==
    call.op = "paint_and_update_textures" =>
        LET S == Places({"set_texture"})
            D == Places(DispatchKinds)
            F == Places({"free_texture"})
        IN  /\ \A a \in S, b \in D \cup F : a < b
            /\ \A a \in D, b \in F : a < b
            /\ (D \cup F # {} \/ pc \in {"loop", "callback", "free"}) => Cardinality(S) = Len(frame.set)
            /\ F # {} => Cardinality(D) = Cardinality({i \in 1..Len(frame.prims) : Dispatched(frame.prims[i])})
            /\ (F = {} /\ pc \in {"loop", "callback"}) =>
                    \A i \in 1..(idx - 1) :
                        (frame.prims[i].kind = "Mesh" /\ frame.prims[i].tex \in DOMAIN textures)
                            => \E j \in D : events[j] = Ev("draw_elements", frame.prims[i].tex,
                                                           textures[frame.prims[i].tex], i, FALSE)

\* C2 witness: a texture set in the frame, drawn with, and then freed by the
\* same frame.
C2_Witness ==
    /\ call.op = "paint_and_update_textures"
    /\ \E a, b, c \in 1..Len(events) :
        /\ a < b /\ b < c
        /\ events[a].e = "set_texture"
        /\ events[b].e = "draw_elements"
        /\ events[b].id = events[a].id
        /\ events[b].id \in Range(frame.free)
        /\ events[c] = Ev("delete_texture", events[b].id, events[b].h, 0, FALSE)

\* C3: the mesh draws and callback invocations of a frame are logged in the order
\* of the primitives, each primitive at most once and as its own kind, and the
\* depth test is off at every mesh draw.
C3_DispatchInInputOrder ==
    LET D == Places({"draw_elements", "callback"})
    IN  /\ \A a, b \in D : a < b => events[a].i < events[b].i
        /\ \A a \in D :
            /\ events[a].i \in 1..Len(frame.prims)
            /\ pc \in {"loop", "callback"} => events[a].i <= idx
            /\ frame.prims[events[a].i].kind = (IF events[a].e = "callback" THEN "Callback" ELSE "Mesh")
            /\ events[a].e = "draw_elements" => ~events[a].d

\* C3 witness: a mesh drawn after a callback of the same frame was invoked.
C3_Witness ==
    \E a, b \in 1..Len(events) :
        /\ a < b
        /\ events[a].e = "callback"
        /\ events[b].e = "draw_elements"

(* ------------------------------------------------------------------ *)
(* Properties of the texture table                                    *)
(* ------------------------------------------------------------------ *)

\* The step is a call of the public method op.
Calls(op) == nCalls' = nCalls + 1 /\ call'.op = op

\* The step is free_texture(id) for an id the table maps to h, called directly
\* or for the free list of paint_and_update_textures.
FreesHandle(h) ==
    \/ Calls("free_texture") /\ call'.id \in DOMAIN textures /\ textures[call'.id] = h
    \/ pc = "free" /\ frame.free[idx] \in DOMAIN textures /\ textures[frame.free[idx]] = h

\* The step is the first destroy(), with h in the table or pending.
DestroysHandle(h) ==
    Calls("destroy") /\ ~destroyed /\ h \in Range(textures) \cup Range(textures_to_destroy)

\* C4 as stated: once destroyed, every method other than destroy ends in the
\* assertion.
C4_AssertsAfterDestroy ==
    (destroyed /\ pc = "idle" /\ call.op \notin {"destroy", "drop"}) => outcome = "panic"

C6_DestroyDeletesAndDrains ==
    (call.op = "destroy" /\ pc = "idle") =>
        /\ \A h \in Range(textures) \cup Range(textures_to_destroy) : glDeleteCount[h] > 0
        /\ textures_to_destroy = <<>>

\* C7: a destroy() on a destroyed painter issues no device call, changes neither
\* the painter nor the device, and returns normally.
C7_SecondDestroyIsNoOp ==
    [][(Calls("destroy") /\ destroyed) =>
            /\ UNCHANGED <<painterVars, deviceVars>>
            /\ events' = <<>>
            /\ outcome' = "ok"]_vars

\* C7 witness: destroy() has been called on a painter whose textures an earlier
\* destroy() had deleted.
C7_Witness ==
    /\ call.op = "destroy"
    /\ events = <<>>
    /\ destroyed
    /\ \E h \in Handles : glDeleteCount[h] = 1

\* C8: free_texture(id) never panics; for an id not in the table it issues no
\* device call and changes nothing; for an id in the table it removes the entry
\* and deletes its handle once; afterwards the id is not in the table, so a
\* second free_texture(id) is the first case.
C8_FreeTextureIdempotent ==
    [][Calls("free_texture") =>
            /\ outcome' = "ok"
            /\ call'.id \notin DOMAIN textures'
            /\ IF call'.id \in DOMAIN textures
               THEN /\ textures' = MapRemove(textures, call'.id)
                    /\ glDeleteCount' = [glDeleteCount EXCEPT ![textures[call'.id]] = @ + 1]
                    /\ events' = <<Ev("delete_texture", call'.id, textures[call'.id], 0, FALSE)>>
               ELSE /\ UNCHANGED <<painterVars, deviceVars>>
                    /\ events' = <<>>]_vars

\* C8 witness: register_native_texture(1), free_texture of its id, and the same
\* free_texture again: texture 1 has been deleted once and the last call did
\* nothing.
C8_Witness ==
    /\ nCalls = 3
    /\ call.op = "free_texture"
    /\ call.id = User(NativeIdBase)
    /\ next_native_tex_id = Incr(NativeIdBase)
    /\ textures = EmptyMap
    /\ events = <<>>
    /\ ~destroyed
    /\ glDeleteCount[1] = 1

\* C9: right after register_native_texture(h) has returned id, texture(id) is h;
\* after replace_native_texture(id, h2), texture(id) is h2 and the table is
\* otherwise as before.
C9_RegisterThenTexture ==
    [][/\ (Calls("register_native_texture") /\ outcome' = "ok") =>
                texture(call.ret)' = call'.h
       /\ Calls("replace_native_texture") =>
                /\ texture(call.id)' = call'.h
                /\ DOMAIN textures' = DOMAIN textures \cup {call'.id}
                /\ \A k \in DOMAIN textures \ {call'.id} : textures'[k] = textures[k]]_vars

\* C9 witness: the id register_native_texture(1) returned resolves to 2 after
\* replace_native_texture(id, 2).
C9_Witness ==
    /\ call.op = "replace_native_texture"
    /\ call.id = User(NativeIdBase)
    /\ 1 \in registered
    /\ texture(call.id) = 2
    /\ textures_to_destroy = <<1>>

C11_RegisterNeverOverwrites ==
    [][(Calls("register_native_texture") /\ outcome' = "ok") => call'.ret \notin DOMAIN textures]_vars

\* What does hold of the id: register_native_texture returns
\* User(next_native_tex_id) and increments the counter, which never decreases;
\* the id is none register_native_texture has returned before and no Managed id,
\* and Managed entries are left alone.  When the id is in the table already (the
\* caller had put it there with set_texture or replace_native_texture), the
\* entry is overwritten and its handle neither deleted nor queued.
RegisterReturnsFreshId ==
    [][/\ next_native_tex_id'[1] = next_native_tex_id[1]
       /\ next_native_tex_id'[2] >= next_native_tex_id[2]
       /\ (Calls("register_native_texture") /\ outcome' = "ok") =>
            /\ call'.ret = User(next_native_tex_id)
            /\ next_native_tex_id' = Incr(next_native_tex_id)
            /\ call'.ret \notin returned
            /\ call'.ret[1] # "Managed"
            /\ \A k \in DOMAIN textures : k[1] = "Managed" => k # call'.ret /\ textures'[k] = textures[k]
            /\ call'.ret \in DOMAIN textures =>
                    /\ glDeleteCount' = glDeleteCount
                    /\ textures_to_destroy' = textures_to_destroy]_vars

\* The loop of paint_primitives is at primitive idx, a mesh whose texture id
\* has no entry in the table.
AtMissingTextureMesh ==
    /\ pc = "loop"
    /\ idx <= Len(frame.prims)
    /\ frame.prims[idx].kind = "Mesh"
    /\ frame.prims[idx].tex \notin DOMAIN textures

\* Events of the log for primitive i, of the kinds given.
EventsOf(i, kinds) == {j \in Places(kinds) : events[j].i = i}

\* C12: for a mesh whose texture id has no entry, paint_primitives logs one
\* warning and nothing else, binds and uploads no buffer, issues no draw call,
\* does not panic, and goes on with the next primitive; when the loop is left,
\* every primitive to dispatch has been dispatched exactly once, the meshes
\* without a texture as a warning and never as a draw.
C12_MissingTextureSkipsMesh ==
    [][/\ AtMissingTextureMesh =>
            /\ events' = Append(events, Ev("warn_missing_texture", frame.prims[idx].tex, NoHandle, idx, FALSE))
            /\ gl' = [gl EXCEPT !.scissor = set_clip_rect(frame.size, frame.ppp, frame.prims[idx].clip)]
            /\ outcome' = "running"
            /\ pc' = "loop"
            /\ idx' = idx + 1
       /\ (pc = "loop" /\ pc' # "loop" /\ pc' # "callback") =>
            \A i \in 1..Len(frame.prims) :
                /\ Cardinality(EventsOf(i, DispatchKinds)) = (IF Dispatched(frame.prims[i]) THEN 1 ELSE 0)
                /\ (frame.prims[i].kind = "Mesh" /\ frame.prims[i].tex \notin DOMAIN textures) =>
                        /\ Cardinality(EventsOf(i, {"warn_missing_texture"})) = 1
                        /\ EventsOf(i, {"draw_elements"}) = {}]_vars

\* C12 witness: a frame has returned in which the first primitive was a mesh
\* without a texture, warned about, and the second a mesh that was drawn.
C12_Witness ==
    /\ pc = "idle"
    /\ outcome = "ok"
    /\ call.op = "paint_primitives"
    /\ \E a, b \in 1..Len(events) :
        /\ a < b
        /\ events[a].e = "warn_missing_texture" /\ events[a].i = 1
        /\ events[b].e = "draw_elements" /\ events[b].i = 2

\* The loop of paint_primitives is at primitive idx, a callback.
AtCallback ==
    /\ pc = "loop"
    /\ idx <= Len(frame.prims)
    /\ frame.prims[idx].kind = "Callback"

\* The rectangle has a width or a height that is zero or negative.
EmptyRect(r) == r.max[1] - r.min[1] <= 0 \/ r.max[2] - r.min[2] <= 0

\* C13: at a callback primitive whose rectangle has a width or height <= 0 the
\* loop logs nothing, enters no callback and leaves the viewport as it is; at one
\* with positive width and height that carries a CallbackFn it sets the viewport
\* and enters the callback; when the loop is left, each callback primitive has
\* been invoked once if its rectangle is positive and it carries a CallbackFn,
\* and never otherwise.
C13_EmptyRectCallbackSkipped ==
    [][/\ (AtCallback /\ EmptyRect(frame.prims[idx].rect)) =>
            /\ events' = events
            /\ gl'.viewport = gl.viewport
            /\ pc' = "loop"
            /\ idx' = idx + 1
       /\ (AtCallback /\ ~EmptyRect(frame.prims[idx].rect) /\ frame.prims[idx].fn) =>
            /\ events' = Append(events, Ev("callback", NoId, NoHandle, idx, FALSE))
            /\ gl'.viewport = CallbackViewport(frame.size, frame.ppp, frame.prims[idx].rect)
            /\ pc' = "callback"
       /\ (pc = "loop" /\ pc' # "loop" /\ pc' # "callback") =>
            \A i \in 1..Len(frame.prims) :
                Cardinality(EventsOf(i, {"callback"})) =
                    (IF frame.prims[i].kind = "Callback" /\ ~EmptyRect(frame.prims[i].rect) /\ frame.prims[i].fn
                     THEN 1 ELSE 0)]_vars

\* C13 witness: a frame has returned whose first primitive is a callback with an
\* empty rectangle, never invoked, and whose second is a callback that was.
C13_Witness ==
    /\ pc = "idle"
    /\ outcome = "ok"
    /\ Len(frame.prims) = 2
    /\ frame.prims[1].kind = "Callback"
    /\ EmptyRect(frame.prims[1].rect)
    /\ frame.prims[1].fn
    /\ EventsOf(1, DispatchKinds) = {}
    /\ Cardinality(EventsOf(2, {"callback"})) = 1

(* ------------------------------------------------------------------ *)
(* Properties of the scissor box                                      *)
(* ------------------------------------------------------------------ *)

Min(a, b) == IF a < b THEN a ELSE b

Max(a, b) == IF a > b THEN a ELSE b

\* The pixel a clip coordinate is rounded to, on the axis a (1: x, 2: y), and
\* the clamped corners of the claim: the min corner into [0, side], the max
\* corner into [min corner, side].
ClipPixel(c) == Round(frame.ppp * c, CoordDen)

ClampedMin(a) == Max(0, Min(ClipPixel(frame.prims[1].clip.min[a]), frame.size[a]))

ClampedMax(a) == Max(ClampedMin(a), Min(ClipPixel(frame.prims[1].clip.max[a]), frame.size[a]))

\* C14: the scissor box <<x0, y0, w, h>> set_clip_rect hands to the device lies
\* in the framebuffer (0 <= x0, 0 <= y0, w >= 0, h >= 0, x0 + w <= W,
\* y0 + h <= H), and x0 = clampedMinX, w = clampedMaxX - clampedMinX,
\* y0 = H - clampedMaxY, h = clampedMaxY - clampedMinY; for the framebuffer
\* 800x600, scale 1 and the clip rectangle (10,10)-(50,50) it is <<10, 550, 40, 40>>.
\* Framebuffer sides are below 2^31, where `as i32` is the identity.
C14_ScissorInsideFramebuffer ==
    pc = "clipped" =>
        LET x0 == gl.scissor[1]
            y0 == gl.scissor[2]
            w == gl.scissor[3]
            h == gl.scissor[4]
            W == frame.size[1]
            H == frame.size[2]
        IN  /\ 0 <= x0 /\ 0 <= y0 /\ w >= 0 /\ h >= 0
            /\ x0 + w <= W /\ y0 + h <= H
            /\ x0 = ClampedMin(1)
            /\ w = ClampedMax(1) - ClampedMin(1)
            /\ y0 = H - ClampedMax(2)
            /\ h = ClampedMax(2) - ClampedMin(2)
            /\ (frame.size = <<800, 600>> /\ frame.ppp = 1
                    /\ frame.prims[1].clip = Rect(10 * CoordDen, 10 * CoordDen, 50 * CoordDen, 50 * CoordDen))
                => gl.scissor = <<10, 550, 40, 40>>

\* C14 witness: the scenario of the claim has been computed.
C14_Witness ==
    /\ pc = "clipped"
    /\ frame.size = <<800, 600>>
    /\ frame.ppp = 1
    /\ gl.scissor = <<10, 550, 40, 40>>

(* ------------------------------------------------------------------ *)
(* Properties of set_texture                                          *)
(* ------------------------------------------------------------------ *)

\* The image delta the set_texture call of the state was given.
ArgDelta == frame.set[1][2]

\* An image the claim calls invalid: a side of 0, a side above
\* max_texture_side, or a pixel count that is not width * height.
InvalidImage(d) ==
    \/ d.size[1] = 0 \/ d.size[2] = 0
    \/ d.size[1] > MaxTextureSide \/ d.size[2] > MaxTextureSide
    \/ Len(d.pixels) # d.size[1] * d.size[2]

UploadKinds == {"tex_image_2d", "tex_sub_image_2d"}

\* C15: a set_texture call with an invalid image panics, logs no upload and
\* leaves the storage of every device texture (size and pixels) as it was.
C15_InvalidImageAsserts ==
    [][(Calls("set_texture") /\ InvalidImage(ArgDelta')) =>
            /\ outcome' = "panic"
            /\ glStorage' = glStorage
            /\ \A j \in 1..Len(events') : events'[j].e \notin UploadKinds]_vars

\* C15 witness: set_texture has panicked on an image one wider than
\* max_texture_side, on a painter that is not destroyed, after an upload.
C15_Witness ==
    /\ call.op = "set_texture"
    /\ outcome = "panic"
    /\ ~destroyed
    /\ ArgDelta.size = <<MaxTextureSide + 1, 1>>
    /\ Len(ArgDelta.pixels) = MaxTextureSide + 1
    /\ \E h \in Handles : glStorage[h] # NoStorage

\* The patch P lies inside the image I.
PatchFitsImage(I, P) ==
    /\ P.pos # NoPos
    /\ P.pos[1] + P.size[1] <= I.size[1]
    /\ P.pos[2] + P.size[2] <= I.size[2]

\* The image I with the patch P written at its offset: the pixel of column cx
\* and row cy is P's when the patch covers it, else I's.
Patched(I, P) ==
    LET PixelAt(cx, cy) ==
            IF /\ P.pos[1] <= cx /\ cx < P.pos[1] + P.size[1]
               /\ P.pos[2] <= cy /\ cy < P.pos[2] + P.size[2]
            THEN P.pixels[(cy - P.pos[2]) * P.size[1] + (cx - P.pos[1]) + 1]
            ELSE I.pixels[cy * I.size[1] + cx + 1]
    IN  FullImage(I.size[1], I.size[2],
                  [j \in 1..Len(I.pixels) |-> PixelAt((j - 1) % I.size[1], (j - 1) \div I.size[1])])

\* C16: when set_texture(id, full image I) has returned and the next call is
\* set_texture(id, patch P) with P a valid image inside I, the call returns, id
\* keeps its handle, and the device texture has the size and the pixels that
\* set_texture(id, I with P written at its offset) uploads.
C16_FullThenPatchIsPatchedFull ==
    [][(/\ call.op = "set_texture" /\ outcome = "ok" /\ ArgDelta.pos = NoPos
        /\ Calls("set_texture") /\ call'.id = call.id
        /\ ~InvalidImage(ArgDelta') /\ PatchFitsImage(ArgDelta, ArgDelta')) =>
            /\ outcome' = "ok"
            /\ texture(call.id)' = texture(call.id)
            /\ ImageAssertsPass(Patched(ArgDelta, ArgDelta'))
            /\ glStorage'[texture(call.id)] = upload_texture_srgb(NoStorage, Patched(ArgDelta, ArgDelta'))]_vars

\* C16 witness: a 1x1 patch was written at offset (1, 1) of a 2x2 image: the
\* texture holds three pixels of the image and the pixel of the patch.
C16_Witness ==
    /\ call.op = "set_texture"
    /\ outcome = "ok"
    /\ ArgDelta = PatchImage(1, 1, 1, 1, Fill(1, 30))
    /\ glStorage[texture(call.id)] = [w |-> 2, h |-> 2, px |-> <<11, 12, 13, 31>>]

(* ------------------------------------------------------------------ *)
(* Properties of the exit of a frame and of the intermediate pass     *)
(* ------------------------------------------------------------------ *)

PaintOps == {"paint_primitives", "paint_and_update_textures"}

\* paint_primitives has returned: the call was paint_primitives and is over, or
\* paint_and_update_textures is at or past its frees.
PaintReturned ==
    /\ call.op \in PaintOps
    /\ pc = "free" \/ (pc = "idle" /\ outcome = "ok")

C18_DropWarnsIffNeverDestroyed ==
    call.op = "drop" =>
        /\ Cardinality(Places({"warn_forgot_destroy"})) = (IF destroyCalled THEN 0 ELSE 1)
        /\ Len(events) = Cardinality(Places({"warn_forgot_destroy"}))

\* C18 witness: a painter holding a texture was dropped without destroy() and
\* the warning was logged.
C18_Witness ==
    /\ call.op = "drop"
    /\ ~destroyCalled
    /\ textures # EmptyMap
    /\ events = <<Ev("warn_forgot_destroy", NoId, NoHandle, 0, FALSE)>>

\* A painter was dropped after destroy() and calls after it: no warning.
C18_WitnessDestroyed ==
    /\ call.op = "drop"
    /\ destroyCalled
    /\ nCalls >= 2
    /\ events = <<>>

\* The events of the intermediate pass in the log.
PostProcessKinds == {"post_process_begin", "post_process_bind", "post_process_end"}

\* The dispatched callbacks whose body (or warning) is over.
CallbackOverKinds == {"callback_returned", "warn_unsupported_callback"}

\* paint_primitives has passed its assertion in the call of the state.
PaintEntered ==
    /\ call.op \in PaintOps
    /\ pc \in {"loop", "callback", "free"} \/ (pc = "idle" /\ outcome = "ok")

\* C19: the presence of the intermediate pass never changes.  Without it no
\* begin, bind or end is logged.  With it, a paint_primitives call that passed
\* its assertion has logged begin once, then at once a bind, both before every
\* dispatch; one more bind right after each dispatched callback that is over
\* and no other bind; and end exactly once, after everything else of the
\* painting, when paint_primitives has returned and not before.
C19_IntermediatePassBrackets ==
    /\ [](LET B == Places({"post_process_begin"})
              N == Places({"post_process_bind"})
              E == Places({"post_process_end"})
              D == Places(DispatchKinds)
              R == Places(CallbackOverKinds)
          IN  /\ ~post_process => Places(PostProcessKinds) = {}
              /\ (post_process /\ ~PaintEntered) => Places(PostProcessKinds) = {}
              /\ (post_process /\ PaintEntered) =>
                    /\ Cardinality(B) = 1
                    /\ \A b \in B : (b + 1) \in N /\ \A d \in D : b + 1 < d
                    /\ \A r \in R : (r + 1) \in N
                    /\ N = {b + 1 : b \in B} \cup {r + 1 : r \in R}
                    /\ Cardinality(E) = (IF PaintReturned THEN 1 ELSE 0)
                    /\ \A e \in E, j \in B \cup N \cup D \cup R : j < e)
    /\ [][post_process' = post_process]_vars

\* C19 witness: with the intermediate pass, a frame of a callback and then a
\* mesh has returned: begin, bind, the callback, bind, the draw, end.
C19_Witness ==
    /\ post_process
    /\ PaintReturned
    /\ \E a, b, c, d \in 1..Len(events) :
        /\ a < b /\ b < c /\ c < d
        /\ events[a].e = "callback_returned"
        /\ events[b].e = "post_process_bind"
        /\ events[c].e = "draw_elements"
        /\ events[d].e = "post_process_end"

C20_WitnessEmptyList ==
    /\ PaintReturned
    /\ call.op = "paint_primitives"
    /\ frame.prims = <<>>

(* ------------------------------------------------------------------ *)
(* Properties of texture updates and of the table across calls        *)
(* ------------------------------------------------------------------ *)

\* The id and the image of the set_texture call a frame is about to make.
SetId == frame.set[idx][1]

SetDelta == frame.set[idx][2]

\* The frame is about to call set_texture for an id that has a texture.
AtSetOfKnownId == pc = "set" /\ SetId \in DOMAIN textures

\* The size of the storage the device holds for handle h.
StorageSize(h) == <<glStorage[h].w, glStorage[h].h>>

\* C21 as written: a set_texture call that returns, with a full image of a size
\* other than the one stored for the id, gives the id another handle and puts
\* the old one on the pending list; with a patch it keeps the handle.
C21_FullReplaceCreatesHandle ==
    [][(AtSetOfKnownId /\ outcome' # "panic") =>
          /\ (SetDelta.pos = NoPos /\ SetDelta.size # StorageSize(textures[SetId])) =>
                /\ textures'[SetId] # textures[SetId]
                /\ textures[SetId] \in Range(textures_to_destroy')
          /\ SetDelta.pos # NoPos => textures'[SetId] = textures[SetId]]_vars

\* C21, amended: set_texture on an id that has a texture keeps the table, the
\* pending list and the set of device textures as they are, for a full image
\* of any size as for a patch; a full image that passes the assertions becomes
\* the storage of the same handle.
C21_SetTextureKeepsHandle ==
    [][AtSetOfKnownId =>
          /\ textures' = textures
          /\ textures_to_destroy' = textures_to_destroy
          /\ glTextures' = glTextures
          /\ (outcome' # "panic" /\ SetDelta.pos = NoPos) =>
                glStorage'[textures[SetId]] =
                    [w |-> SetDelta.size[1], h |-> SetDelta.size[2], px |-> SetDelta.pixels]]_vars

\* C21 witness: a frame has set a full image and then one of another size for
\* the same id; at most one texture was created, both uploads went to it, and
\* the id still has that handle, now with storage of the second size.
C21_Witness ==
    /\ pc = "enter"
    /\ call.op = "paint_and_update_textures"
    /\ Len(frame.set) = 2
    /\ frame.set[1][1] = frame.set[2][1]
    /\ frame.set[1][2].pos = NoPos /\ frame.set[2][2].pos = NoPos
    /\ frame.set[1][2].size # frame.set[2][2].size
    /\ Cardinality(Places({"create_texture"})) <= 1
    /\ \E a, b \in Places({"tex_image_2d"}) :
          /\ a < b
          /\ events[a].id = frame.set[1][1] /\ events[b].id = frame.set[1][1]
          /\ events[a].h = events[b].h
          /\ texture(frame.set[1][1]) = events[b].h
          /\ StorageSize(events[b].h) = frame.set[2][2].size
    /\ textures_to_destroy = <<>>

\* Column and row of the j-th pixel of a storage of width w (row-major).
ColOf(j, w) == (j - 1) % w

RowOf(j, w) == (j - 1) \div w

\* Pixel (cx, cy) lies in the region [pos, pos + size) of the patch P.
InRegion(P, cx, cy) ==
    /\ P.pos[1] <= cx /\ cx < P.pos[1] + P.size[1]
    /\ P.pos[2] <= cy /\ cy < P.pos[2] + P.size[2]

C22_WitnessNoStorage ==
    /\ call.op = "set_texture"
    /\ ArgDelta.pos # NoPos
    /\ ~InvalidImage(ArgDelta)
    /\ Places({"create_texture"}) # {}
    /\ glStorage[texture(call.id)] = NoStorage
    /\ Places({"tex_sub_image_2d"}) = {}

\* C23 as stated: no step deletes a handle on the device more than once, nor
\* deletes a handle that is not a texture of the device any more (it was
\* deleted before and not created or registered again since).
C23_NoDoubleDelete ==
    [][\A h \in Handles :
            glDeleteCount'[h] <= glDeleteCount[h] + (IF h \in glTextures THEN 1 ELSE 0)]_vars

\* C24 as stated: a set_texture call that fails an assertion on its image
\* leaves the table as it was, with no entry added for the id, and creates no
\* device texture.
C24_FailedSetTextureLeavesTable ==
    [][(Calls("set_texture") /\ InvalidImage(ArgDelta') /\ outcome' = "panic") =>
            /\ textures' = textures
            /\ glTextures' = glTextures
            /\ (Places({"create_texture"}))' = {}]_vars

\* A step of paint_primitives: its call, or a step of its body, callbacks
\* included (in paint_and_update_textures: the steps between its set_texture
\* calls and its free_texture calls).
PaintPrimitivesStep ==
    \/ Calls("paint_primitives")
    \/ pc \in {"enter", "loop", "callback"}

\* C25: no step of paint_primitives changes the table, the pending list, the
\* counter of native ids or the destroyed flag, whatever the primitives are and
\* whatever a callback does with the `&Painter` it is given.
C25_PaintLeavesTable ==
    [][PaintPrimitivesStep =>
            UNCHANGED <<textures, textures_to_destroy, next_native_tex_id, destroyed>>]_vars

\* C25 witness: paint_primitives has returned from a frame in which a callback
\* deleted the device texture of an id of the table: the id still has its
\* entry, with a handle that is no texture of the device any more.
C25_Witness ==
    /\ PaintReturned
    /\ Places({"callback_returned"}) # {}
    /\ \E id \in DOMAIN textures : textures[id] \notin glTextures /\ glDeleteCount[textures[id]] = 1

====
